---- MODULE Spec2Model ----
(***************************************************************************)
(* A model of the peer supervisor (package aw: Run, bootstrap,             *)
(* receiveMessageOnTheWire), of the ping/pong protocol (package pingpong:  *)
(* Ping, AcceptPing, AcceptPong, pong, propagatePing, updatePeerAddress)   *)
(* and of the ECDSA handshake (package handshake: Handshake,               *)
(* AcceptHandshake and the functions they call).                           *)
(*                                                                         *)
(* Every node runs the supervisor loop of Run.  A blocking channel send    *)
(* inside a Go select is one step of the model: the step that takes the    *)
(* send case needs room in the channel, the step that takes the ctx.Done   *)
(* case needs the context to be done, and when both are ready either may   *)
(* be taken (Go picks a ready case at random).                             *)
(*                                                                         *)
(* The dht package, the broadcaster and the session constructor are not    *)
(* part of the sources at hand; the DHT operators follow section 4.5 of    *)
(* the specification, over an in-memory store that does not fail (the      *)
(* default store of aw.Default), the broadcaster follows section 4.4 and   *)
(* the session constructor sections 4.6 and 4.7.  The codec encodes every  *)
(* address, so Encode returns no error.                                    *)
(***************************************************************************)
EXTENDS Naturals, Integers, Sequences, FiniteSets, TLC

VARIABLES
    pc,         \* pc[n]: where node n's Run is
    cancelled,  \* cancelled[n]: the context given to Run is done
    boot,       \* boot[n]: PeerOptions.BootstrapAddresses of node n
    dht,        \* dht[n][id]: the locator stored for id, 0 when absent
    outbound,   \* outbound[n]: the MessageSender channel of node n
    events,     \* events[n]: the EventSender channel of node n
    emitted,    \* emitted[n]: every event node n has put on events[n], in order
    h,          \* h[n]: the accept handler Run is in, and the record of its call
    sweep,      \* sweep[n]: the bootstrap sweep Run is in, and its record
    wk,         \* wk[n][w]: worker w of that sweep
    nrecv,      \* messages the environment has handed to a receiver channel
    nticks,     \* ticks of the bootstrap ticker served
    inbox,      \* inbox[n]: the MessageReceiver channel of node n, as the
                \* transport fills it; each entry also names the peer whose
                \* connection it came over
    hs,         \* a handshake over one stream: the two ends and the stream
    seen,       \* seen[n]: the payloads in the broadcast store of node n
    flooded,    \* flooded[n]: the Pings node n has propagated, in order, each
                \* as the body and the PeerID it was enqueued for
    tm          \* a bootstrap worker computing the timeout of its Ping

vars == <<pc, cancelled, boot, dht, outbound, events, emitted, h, sweep, wk,
          nrecv, nticks, inbox, hs, seen, flooded, tm>>

----------------------------------------------------------------------------
(* Sizes of the model *)

\* ticks and inbound messages the select of Run serves in one run
MaxServed == 2
\* capacity of the outbound MessageSender channel
OutboundCap == 1
\* PeerOptions.EventBuffer: capacity of the event channel
EventBuffer == 1
\* PeerOptions.BootstrapWorkers
BootstrapWorkers == 2

PeerIDs == {"a", "b", "c", "d"}
Locs == {1, 2}
Workers == 1 .. BootstrapWorkers

\* protocol.V1 and a version that is not supported
V1 == "V1"
V2 == "V2"
NilPeerGroupID == "nil"

Addr(id, loc) == [id |-> id, loc |-> loc]
NoAddr == [id |-> "none", loc |-> 0]
PeerAddrs == {Addr(id, loc) : id \in PeerIDs, loc \in Locs}

\* the address a node is constructed with (PeerOptions.Me)
Me(n) == Addr(n, 1)

----------------------------------------------------------------------------
(* protocol.PeerAddressCodec.  A body is a byte string; the codec writes an *)
(* address as its two fields and reads back any string that starts with two *)
(* well-formed fields, so a body with trailing bytes decodes to the same    *)
(* address as the canonical one without being equal to it.                  *)

Encode(addr) == <<addr.id, addr.loc>>

Decode(body) ==
    IF Len(body) \in {2, 3} /\ body[1] \in PeerIDs /\ body[2] \in Locs
    THEN [ok |-> TRUE, addr |-> Addr(body[1], body[2])]
    ELSE [ok |-> FALSE, addr |-> NoAddr]

NewMessage(version, variant, group, body) ==
    [version |-> version, variant |-> variant, group |-> group, body |-> body]

MessageOnTheWire(to, msg) == [to |-> to, msg |-> msg]

EventPeerChanged(addr) == [type |-> "PeerChanged", addr |-> addr]

----------------------------------------------------------------------------
(* The DHT, after section 4.5 of the specification *)

EmptyDHT == [id \in PeerIDs |-> 0]

DHTPeerAddresses(d) == {Addr(id, d[id]) : id \in {i \in PeerIDs : d[i] # 0}}

DHTHas(d, id) == d[id] # 0

DHTPeerAddress(d, id) == Addr(id, d[id])

DHTUpdatePeerAddress(d, me, addr) ==
    IF addr.id = me.id \/ d[addr.id] = addr.loc
    THEN [updated |-> FALSE, dht |-> d]
    ELSE [updated |-> TRUE, dht |-> [d EXCEPT ![addr.id] = addr.loc]]

\* dht.New: the store seeded with the bootstrap addresses
DHTNew(me, addrs) ==
    [id \in PeerIDs |->
        IF id # me.id /\ \E a \in addrs : a.id = id
        THEN (CHOOSE a \in addrs : a.id = id).loc
        ELSE 0]

----------------------------------------------------------------------------
(* Records of a handler call and of a sweep *)

NoMsg == NewMessage("none", "none", NilPeerGroupID, <<>>)

IdleCall ==
    [at |-> "idle", msg |-> NoMsg, from |-> "none", addr |-> NoAddr,
     todo |-> {}, err |-> "nil", res |-> "none", updated |-> FALSE,
     before |-> EmptyDHT, sent |-> <<>>, evs |-> <<>>,
     op |-> "none", arg |-> "none", stopped |-> FALSE]

NewCall(n, m, from) ==
    [IdleCall EXCEPT !.msg = m, !.from = from, !.before = dht[n]]

\* no handshake is under way
NoHandshake == [mode |-> "off"]

\* no timeout is being computed
NoTimeout == [at |-> "off"]

IdleSweep == [queue |-> {}, N |-> 0, all |-> {}, pinged |-> {}, failed |-> {}]

IdleWorker == [st |-> "idle", addr |-> NoAddr]

HasRoom(n) == Len(outbound[n]) < OutboundCap

Put(f, n, v) == [f EXCEPT ![n] = v]

----------------------------------------------------------------------------
(* package pingpong *)

\* a handler returns to Run's loop with result res
Finish(n, c, res) ==
    /\ h' = Put(h, n, [c EXCEPT !.at = "idle", !.res = res])
    /\ pc' = Put(pc, n, "select")

\* AcceptPing: peerAddr.PeerID().Equal(pp.dht.Me().PeerID())
IsSelf(n, addr) == addr.id = Me(n).id

\* AcceptPing: if err != nil || !didUpdate { return err }
StopsAfterUpdateAlways(err, didUpdate) == err # "nil"

StopsAfterUpdate(err, didUpdate) == err # "nil" \/ ~didUpdate

\* propagatePing: if addr.PeerID().Equal(sender) { continue }
SkipsNobody(addr, sender) == FALSE

SkipsPropagation(addr, sender) == addr.id = sender

\* propagatePing: the body of the forwarded Ping is the body received
PropagatedBody(c) == c.msg.body

\* the Ping and the Pong a node sends about itself
PingWithoutBody(n) == NewMessage(V1, "Ping", NilPeerGroupID, <<>>)

PingMessage(n) == NewMessage(V1, "Ping", NilPeerGroupID, Encode(Me(n)))
PongMessage(n) == NewMessage(V1, "Pong", NilPeerGroupID, Encode(Me(n)))

\* what AcceptPing does once updatePeerAddress has returned (didUpdate, err)
AfterUpdatePing(n, c, err, didUpdate) ==
    IF StopsAfterUpdate(err, didUpdate)
    THEN Finish(n, c, err)
    ELSE /\ h' = Put(h, n, [c EXCEPT !.at = "pong"])
         /\ pc' = Put(pc, n, "handle")

\* what AcceptPong does once updatePeerAddress has returned (_, err)
AfterUpdatePong(n, c, err) ==
    IF err # "nil"
    THEN Finish(n, c, "StorageErr")
    ELSE Finish(n, c, "nil")

AfterUpdate(n, c, err, didUpdate) ==
    IF c.msg.variant = "Ping"
    THEN AfterUpdatePing(n, c, err, didUpdate)
    ELSE AfterUpdatePong(n, c, err)

\* updatePeerAddress: if err != nil || !updated { return updated, err }
EmitsRegardless(err, updated) == err # "nil"

ReturnsWhenUpdated(err, updated) == err # "nil" \/ updated

ReturnsBeforeEvent(err, updated) == err # "nil" \/ ~updated

\* updatePeerAddress up to its select: the DHT is updated, and the call
\* returns at once when nothing changed
updatePeerAddress(n, c) ==
    LET upd == DHTUpdatePeerAddress(dht[n], Me(n), c.addr) IN
    /\ dht' = Put(dht, n, upd.dht)
    /\ IF ReturnsBeforeEvent("nil", upd.updated)
       THEN AfterUpdate(n, c, "nil", upd.updated)
       ELSE /\ h' = Put(h, n, [c EXCEPT !.at = "emit", !.updated = upd.updated])
            /\ pc' = Put(pc, n, "handle")
    /\ UNCHANGED <<outbound, events, emitted, seen>>

\* updatePeerAddress, select: case pp.events <- event
EmitEvent(n) ==
    /\ pc[n] = "handle" /\ h[n].at = "emit"
    /\ Len(events[n]) < EventBuffer
    /\ LET ev == EventPeerChanged(h[n].addr) IN
       /\ events' = Put(events, n, Append(events[n], ev))
       /\ emitted' = Put(emitted, n, Append(emitted[n], ev))
       /\ AfterUpdate(n, [h[n] EXCEPT !.evs = Append(@, ev)], "nil", TRUE)
    /\ UNCHANGED <<cancelled, boot, hs, tm, flooded, seen, dht, outbound, sweep, wk, nrecv, nticks, inbox>>

\* updatePeerAddress, select: case <-ctx.Done()
EmitCancelled(n) ==
    /\ pc[n] = "handle" /\ h[n].at = "emit"
    /\ cancelled[n]
    /\ AfterUpdate(n, [h[n] EXCEPT !.stopped = TRUE], "Canceled", FALSE)
    /\ UNCHANGED <<cancelled, boot, hs, tm, flooded, seen, dht, outbound, events, emitted, sweep, wk,
                   nrecv, nticks, inbox>>

\* AcceptPing when the decoded address is this node's: return nil
AcceptPingSelfAfterPong(n, c) ==
    /\ HasRoom(n)
    /\ outbound' = Put(outbound, n,
                       Append(outbound[n], MessageOnTheWire(c.addr, PongMessage(n))))
    /\ Finish(n, [c EXCEPT !.sent = Append(@, MessageOnTheWire(c.addr, PongMessage(n)))],
              "nil")
    /\ UNCHANGED <<dht, events, emitted, seen>>

AcceptPingSelf(n, c) ==
    /\ Finish(n, c, "nil")
    /\ UNCHANGED <<dht, outbound, events, emitted, seen>>

\* AcceptPing and AcceptPong: the check of the version, then of the variant;
\* the error for the version carries the version, the one for the variant
\* the variant
CheckVariantFirst(m, variant) ==
    IF m.variant # variant
    THEN [err |-> "ErrMessageVariantIsNotSupported", arg |-> m.variant]
    ELSE IF m.version # V1
    THEN [err |-> "ErrMessageVersionIsNotSupported", arg |-> m.version]
    ELSE [err |-> "nil", arg |-> "none"]

CheckMessage(m, variant) ==
    IF m.version # V1
    THEN [err |-> "ErrMessageVersionIsNotSupported", arg |-> m.version]
    ELSE IF m.variant # variant
    THEN [err |-> "ErrMessageVariantIsNotSupported", arg |-> m.variant]
    ELSE [err |-> "nil", arg |-> "none"]

\* AcceptPing up to the first select
AcceptPing(n, m, from) ==
    LET c == [NewCall(n, m, from) EXCEPT !.op = "AcceptPing"]
        chk == CheckMessage(m, "Ping")
        dec == Decode(m.body)
    IN  IF chk.err # "nil"
        THEN /\ Finish(n, [c EXCEPT !.arg = chk.arg], chk.err)
             /\ UNCHANGED <<dht, outbound, events, emitted, seen>>
        ELSE IF ~dec.ok
        THEN /\ Finish(n, c, "ErrDecodingMessage")
             /\ UNCHANGED <<dht, outbound, events, emitted, seen>>
        ELSE IF IsSelf(n, dec.addr)
        THEN AcceptPingSelf(n, [c EXCEPT !.addr = dec.addr])
        ELSE updatePeerAddress(n, [c EXCEPT !.addr = dec.addr])

\* AcceptPong up to the select of updatePeerAddress
AcceptPong(n, m, from) ==
    LET c == [NewCall(n, m, from) EXCEPT !.op = "AcceptPong"]
        chk == CheckMessage(m, "Pong")
        dec == Decode(m.body)
    IN  IF chk.err # "nil"
        THEN /\ Finish(n, [c EXCEPT !.arg = chk.arg], chk.err)
             /\ UNCHANGED <<dht, outbound, events, emitted, seen>>
        ELSE IF ~dec.ok
        THEN /\ Finish(n, c, "ErrDecodingMessage")
             /\ UNCHANGED <<dht, outbound, events, emitted, seen>>
        ELSE updatePeerAddress(n, [c EXCEPT !.addr = dec.addr])

\* propagatePing up to its loop, entered when pong has returned nil
propagatePing(n, c) ==
    LET peerAddrs == DHTPeerAddresses(dht[n]) IN
    IF peerAddrs = {}
    THEN Finish(n, c, "ErrZeroAddress")
    ELSE /\ h' = Put(h, n, [c EXCEPT !.at = "prop", !.todo = peerAddrs,
                                      !.err = "nil"])
         /\ pc' = pc

\* pong, select: case pp.messages <- messageWire
PongSend(n) ==
    /\ pc[n] = "handle" /\ h[n].at = "pong"
    /\ HasRoom(n)
    /\ LET mw == MessageOnTheWire(h[n].addr, PongMessage(n)) IN
       /\ outbound' = Put(outbound, n, Append(outbound[n], mw))
       /\ propagatePing(n, [h[n] EXCEPT !.sent = Append(@, mw)])
    /\ UNCHANGED <<cancelled, boot, hs, tm, flooded, seen, dht, events, emitted, sweep, wk, nrecv, nticks, inbox>>

\* pong, select: case <-ctx.Done()
PongIgnoresContext(n) ==
    /\ pc[n] = "handle" /\ h[n].at = "pong"
    /\ FALSE
    /\ UNCHANGED vars

PongCancelled(n) ==
    /\ pc[n] = "handle" /\ h[n].at = "pong"
    /\ cancelled[n]
    /\ Finish(n, [h[n] EXCEPT !.stopped = TRUE], "Canceled")
    /\ UNCHANGED <<cancelled, boot, hs, tm, flooded, seen, dht, outbound, events, emitted, sweep, wk,
                   nrecv, nticks, inbox>>

\* propagatePing, one turn of the loop for the sender's own entry
PropagateSkip(n) ==
    /\ pc[n] = "handle" /\ h[n].at = "prop"
    /\ \E addr \in h[n].todo :
          /\ SkipsPropagation(addr, h[n].addr.id)
          /\ h' = Put(h, n, [h[n] EXCEPT !.todo = @ \ {addr}])
    /\ UNCHANGED <<pc, cancelled, boot, hs, tm, flooded, seen, dht, outbound, events, emitted, sweep, wk,
                   nrecv, nticks, inbox>>

\* propagatePing, select: case pp.messages <- messageWire
PropagateSend(n) ==
    /\ pc[n] = "handle" /\ h[n].at = "prop"
    /\ HasRoom(n)
    /\ \E addr \in h[n].todo :
          /\ ~SkipsPropagation(addr, h[n].addr.id)
          /\ LET mw == MessageOnTheWire(addr,
                         NewMessage(V1, "Ping", NilPeerGroupID, PropagatedBody(h[n])))
             IN /\ outbound' = Put(outbound, n, Append(outbound[n], mw))
                /\ h' = Put(h, n, [h[n] EXCEPT !.todo = @ \ {addr},
                                               !.sent = Append(@, mw)])
                /\ flooded' = Put(flooded, n,
                                  Append(flooded[n], <<mw.msg.body, addr.id>>))
    /\ UNCHANGED <<pc, cancelled, boot, hs, tm, seen, dht, events, emitted, sweep, wk, nrecv, nticks, inbox>>

\* propagatePing, select: case <-ctx.Done(): err = ctx.Err(), and the loop goes on
PropagateCancelled(n) ==
    /\ pc[n] = "handle" /\ h[n].at = "prop"
    /\ cancelled[n]
    /\ \E addr \in h[n].todo :
          /\ ~SkipsPropagation(addr, h[n].addr.id)
          /\ h' = Put(h, n, [h[n] EXCEPT !.todo = @ \ {addr}, !.err = "Canceled",
                                         !.stopped = TRUE])
    /\ UNCHANGED <<pc, cancelled, boot, hs, tm, flooded, seen, dht, outbound, events, emitted, sweep, wk,
                   nrecv, nticks, inbox>>

\* propagatePing: return err
PropagateReturn(n) ==
    /\ pc[n] = "handle" /\ h[n].at = "prop"
    /\ h[n].todo = {}
    /\ Finish(n, h[n], h[n].err)
    /\ UNCHANGED <<cancelled, boot, hs, tm, flooded, seen, dht, outbound, events, emitted, sweep, wk,
                   nrecv, nticks, inbox>>

----------------------------------------------------------------------------
(* package aw: the supervisor *)

\* the handlers of the other variants (cast, multicast, broadcast) touch
\* nothing of the ping/pong state
AcceptOther(n, m, from) ==
    /\ Finish(n, NewCall(n, m, from), "other")
    /\ UNCHANGED <<dht, outbound, events, emitted, seen>>

\* receiveMessageOnTheWire calls a handler with (ctx, messageOtw.Message): of
\* the envelope, whose other field is To, nothing is handed on, and a
\* Message holds no field for the peer it came from.  What a handler is
\* given of the peer over whose connection the message arrived:
SenderGiven(from) == "unknown"

\* the broadcaster, after section 4.4 of the specification.
\* AcceptBroadcast: a payload already in the store is dropped; a new one is
\* inserted and the same message goes to every known peer but the sender
AcceptBroadcast(n, m, from) ==
    LET c == [NewCall(n, m, from) EXCEPT !.op = "AcceptBroadcast"]
        chk == CheckMessage(m, "Broadcast")
    IN  /\ IF chk.err # "nil"
           THEN /\ Finish(n, [c EXCEPT !.arg = chk.arg], chk.err)
                /\ seen' = seen
           ELSE IF m.body \in seen[n]
           THEN /\ Finish(n, c, "nil")
                /\ seen' = seen
           ELSE /\ seen' = Put(seen, n, seen[n] \cup {m.body})
                /\ h' = Put(h, n, [c EXCEPT !.at = "flood", !.todo =
                          {a \in DHTPeerAddresses(dht[n]) : a.id # SenderGiven(from)}])
                /\ pc' = Put(pc, n, "handle")
        /\ UNCHANGED <<dht, outbound, events, emitted>>

\* Broadcast: a payload already in the store is not sent again; a new one is
\* inserted and goes to every known peer
Broadcast(n, body) ==
    LET m == NewMessage(V1, "Broadcast", NilPeerGroupID, body)
        c == [NewCall(n, m, "none") EXCEPT !.op = "Broadcast"]
    IN  /\ IF body \in seen[n]
           THEN /\ Finish(n, c, "nil")
                /\ seen' = seen
           ELSE /\ seen' = Put(seen, n, seen[n] \cup {body})
                /\ h' = Put(h, n, [c EXCEPT !.at = "flood",
                                             !.todo = DHTPeerAddresses(dht[n])])
                /\ pc' = Put(pc, n, "handle")
        /\ UNCHANGED <<dht, outbound, events, emitted>>

\* the flood: the message is enqueued for one more peer
FloodSend(n) ==
    /\ pc[n] = "handle" /\ h[n].at = "flood"
    /\ HasRoom(n)
    /\ \E addr \in h[n].todo :
          LET mw == MessageOnTheWire(addr, h[n].msg) IN
          /\ outbound' = Put(outbound, n, Append(outbound[n], mw))
          /\ h' = Put(h, n, [h[n] EXCEPT !.todo = @ \ {addr}, !.sent = Append(@, mw)])
    /\ UNCHANGED <<pc, cancelled, boot, hs, tm, flooded, seen, dht, events, emitted, sweep, wk,
                   nrecv, nticks, inbox>>

\* the flood is over
FloodReturn(n) ==
    /\ pc[n] = "handle" /\ h[n].at = "flood"
    /\ h[n].todo = {}
    /\ Finish(n, h[n], "nil")
    /\ UNCHANGED <<cancelled, boot, hs, tm, flooded, seen, dht, outbound, events, emitted, sweep, wk,
                   nrecv, nticks, inbox>>

\* receiveMessageOnTheWire: the dispatch on the variant
receiveMessageOnTheWire(n, m, from) ==
    IF m.variant = "Ping" THEN AcceptPing(n, m, from)
    ELSE IF m.variant = "Pong" THEN AcceptPong(n, m, from)
    ELSE IF m.variant = "Broadcast" THEN AcceptBroadcast(n, m, from)
    ELSE IF m.variant \in {"Multicast", "Cast"} THEN AcceptOther(n, m, from)
    ELSE /\ Finish(n, NewCall(n, m, from), "ErrUnexpectedVariant")
         /\ UNCHANGED <<dht, outbound, events, emitted, seen>>

\* bootstrap up to phi.ForAll: the queue is filled and closed, the workers start
bootstrap(n) ==
    LET peerAddrs == DHTPeerAddresses(dht[n]) IN
    /\ sweep' = Put(sweep, n, [queue |-> peerAddrs, N |-> Cardinality(peerAddrs),
                               all |-> peerAddrs, pinged |-> {}, failed |-> {}])
    /\ wk' = Put(wk, n, [w \in Workers |-> [st |-> "start", addr |-> NoAddr]])
    /\ pc' = Put(pc, n, "bootstrap")

\* Run: peer.bootstrap(ctx) before the loop
RunStart(n) ==
    /\ pc[n] = "start"
    /\ bootstrap(n)
    /\ UNCHANGED <<cancelled, boot, hs, tm, flooded, seen, dht, outbound, events, emitted, h, nrecv, nticks, inbox>>

\* the ticker served by a goroutine of its own
RunTickApart(n) ==
    /\ pc[n] \notin {"off", "start", "returned"}
    /\ nrecv + nticks < MaxServed
    /\ nticks' = nticks + 1
    /\ bootstrap(n)
    /\ h' = Put(h, n, IdleCall)
    /\ UNCHANGED <<cancelled, boot, hs, tm, flooded, seen, dht, outbound, events, emitted, nrecv, inbox>>

\* Run, select: case <-ticker.C
RunTick(n) ==
    /\ pc[n] = "select"
    /\ nrecv + nticks < MaxServed
    /\ nticks' = nticks + 1
    /\ bootstrap(n)
    /\ h' = Put(h, n, IdleCall)
    /\ UNCHANGED <<cancelled, boot, hs, tm, flooded, seen, dht, outbound, events, emitted, nrecv, inbox>>

\* Run, select: case <-ctx.Done()
RunReturn(n) ==
    /\ pc[n] = "select"
    /\ cancelled[n]
    /\ pc' = Put(pc, n, "returned")
    /\ h' = Put(h, n, IdleCall)
    /\ sweep' = Put(sweep, n, IdleSweep)
    /\ UNCHANGED <<cancelled, boot, hs, tm, flooded, seen, dht, outbound, events, emitted, wk, nrecv, nticks, inbox>>

\* a worker: peerAddr, ok := <-peerAddrsQ, then Ping up to its select
WorkerPull(n, w) ==
    /\ pc[n] = "bootstrap" /\ wk[n][w].st = "start"
    /\ IF sweep[n].queue = {}
       THEN /\ wk' = Put(wk, n, [wk[n] EXCEPT ![w].st = "done"])
            /\ sweep' = sweep
       ELSE \E addr \in sweep[n].queue :
              /\ sweep' = Put(sweep, n, [sweep[n] EXCEPT
                              !.queue = @ \ {addr},
                              !.failed = IF DHTHas(dht[n], addr.id) THEN @
                                         ELSE @ \cup {addr}])
              /\ wk' = Put(wk, n, [wk[n] EXCEPT ![w] =
                              IF DHTHas(dht[n], addr.id)
                              THEN [st |-> "ping",
                                    addr |-> DHTPeerAddress(dht[n], addr.id)]
                              ELSE [st |-> "done", addr |-> addr]])
    /\ UNCHANGED <<pc, cancelled, boot, hs, tm, flooded, seen, dht, outbound, events, emitted, h,
                   nrecv, nticks, inbox>>

\* Ping, select: case pp.messages <- messageWire
WorkerSend(n, w) ==
    /\ pc[n] = "bootstrap" /\ wk[n][w].st = "ping"
    /\ HasRoom(n)
    /\ outbound' = Put(outbound, n,
                       Append(outbound[n], MessageOnTheWire(wk[n][w].addr, PingMessage(n))))
    /\ sweep' = Put(sweep, n, [sweep[n] EXCEPT !.pinged = @ \cup {wk[n][w].addr}])
    /\ wk' = Put(wk, n, [wk[n] EXCEPT ![w].st = "done"])
    /\ UNCHANGED <<pc, cancelled, boot, hs, tm, flooded, seen, dht, events, emitted, h, nrecv, nticks, inbox>>

\* Ping, select: case <-ctx.Done(), the supervisor's context being done
WorkerCancelled(n, w) ==
    /\ pc[n] = "bootstrap" /\ wk[n][w].st = "ping"
    /\ cancelled[n]
    /\ sweep' = Put(sweep, n, [sweep[n] EXCEPT !.failed = @ \cup {wk[n][w].addr}])
    /\ wk' = Put(wk, n, [wk[n] EXCEPT ![w].st = "done"])
    /\ UNCHANGED <<pc, cancelled, boot, hs, tm, flooded, seen, dht, outbound, events, emitted, h,
                   nrecv, nticks, inbox>>

\* Ping, select: case <-ctx.Done(), the per-ping timeout having expired.  The
\* timeout is a second at least, and a send that finds room does not wait:
\* the timer runs out only on a worker that the full channel keeps waiting.
WorkerTimeout(n, w) ==
    /\ pc[n] = "bootstrap" /\ wk[n][w].st = "ping"
    /\ ~HasRoom(n)
    /\ sweep' = Put(sweep, n, [sweep[n] EXCEPT !.failed = @ \cup {wk[n][w].addr}])
    /\ wk' = Put(wk, n, [wk[n] EXCEPT ![w].st = "done"])
    /\ UNCHANGED <<pc, cancelled, boot, hs, tm, flooded, seen, dht, outbound, events, emitted, h,
                   nrecv, nticks, inbox>>

\* phi.ForAll returns when every worker has returned, and bootstrap with it
BootstrapReturn(n) ==
    /\ pc[n] = "bootstrap"
    /\ \A w \in Workers : wk[n][w].st = "done"
    /\ pc' = Put(pc, n, "select")
    /\ wk' = Put(wk, n, [w \in Workers |-> IdleWorker])
    /\ UNCHANGED <<cancelled, boot, hs, tm, flooded, seen, dht, outbound, events, emitted, h, sweep,
                   nrecv, nticks, inbox>>

----------------------------------------------------------------------------
(* The environment of one node *)

\* bodies the environment sends: this node's address, this node's PeerID at
\* another locator, a new locator for a seeded peer, the address of "c" (new
\* or already stored), the same with a trailing byte, and bytes that do not
\* decode
InjectBodies ==
    {Encode(Addr("a", 1)), Encode(Addr("a", 2)), Encode(Addr("b", 2)),
     Encode(Addr("c", 1)), <<"c", 1, 0>>, <<>>}

InjectMsgs ==
    {NewMessage(V1, v, NilPeerGroupID, b) : v \in {"Ping", "Pong"}, b \in InjectBodies}
    \cup {NewMessage(V2, v, NilPeerGroupID, Encode(Addr("b", 2))) : v \in {"Ping", "Pong"}}
    \cup {NewMessage(V1, v, NilPeerGroupID, <<>>) : v \in {"Cast", "Unknown"}}

\* Run, select: case m := <-peer.receiver, the message coming from outside
RunReceive(n) ==
    /\ pc[n] = "select"
    /\ nrecv + nticks < MaxServed
    /\ nrecv' = nrecv + 1
    /\ \E m \in InjectMsgs : receiveMessageOnTheWire(n, m, "env")
    /\ sweep' = Put(sweep, n, IdleSweep)
    /\ UNCHANGED <<cancelled, boot, hs, tm, flooded, wk, nticks, inbox>>

\* the context given to Run is cancelled
Cancel(n) ==
    /\ pc[n] \notin {"off", "returned"}
    /\ ~cancelled[n]
    /\ cancelled' = Put(cancelled, n, TRUE)
    /\ UNCHANGED <<pc, boot, hs, tm, flooded, seen, dht, outbound, events, emitted, h, sweep, wk,
                   nrecv, nticks, inbox>>

\* the transport takes a message off the outbound channel
Drain(n) ==
    /\ outbound[n] # <<>>
    /\ outbound' = Put(outbound, n, Tail(outbound[n]))
    /\ UNCHANGED <<pc, cancelled, boot, hs, tm, flooded, seen, dht, events, emitted, h, sweep, wk,
                   nrecv, nticks, inbox>>

\* the observer takes an event off the event channel
Observe(n) ==
    /\ events[n] # <<>>
    /\ events' = Put(events, n, Tail(events[n]))
    /\ UNCHANGED <<pc, cancelled, boot, hs, tm, flooded, seen, dht, outbound, emitted, h, sweep, wk,
                   nrecv, nticks, inbox>>

----------------------------------------------------------------------------
(* One node, "a", with an arbitrary environment *)

\* the bootstrap addresses "a" may be constructed with; nothing keeps the
\* node's own address out of them
Seeds ==
    { {Addr("b", 1)}, {Addr("a", 1), Addr("b", 1)}, {Addr("b", 1), Addr("c", 1)},
      {Addr("b", 1), Addr("c", 1), Addr("d", 1)} }

Init ==
    /\ \E s \in Seeds :
          /\ boot = [n \in PeerIDs |-> IF n = "a" THEN s ELSE {}]
          /\ dht = [n \in PeerIDs |-> IF n = "a" THEN DHTNew(Me(n), s) ELSE EmptyDHT]
    /\ pc = [n \in PeerIDs |-> IF n = "a" THEN "start" ELSE "off"]
    /\ cancelled = [n \in PeerIDs |-> FALSE]
    /\ outbound = [n \in PeerIDs |-> <<>>]
    /\ events = [n \in PeerIDs |-> <<>>]
    /\ emitted = [n \in PeerIDs |-> <<>>]
    /\ h = [n \in PeerIDs |-> IdleCall]
    /\ sweep = [n \in PeerIDs |-> IdleSweep]
    /\ wk = [n \in PeerIDs |-> [w \in Workers |-> IdleWorker]]
    /\ nrecv = 0
    /\ nticks = 0
    /\ inbox = [n \in PeerIDs |-> <<>>]
    /\ hs = NoHandshake
    /\ seen = [n \in PeerIDs |-> {}]
    /\ flooded = [n \in PeerIDs |-> <<>>]
    /\ tm = NoTimeout

Next ==
    \E n \in PeerIDs :
       \/ RunStart(n)
       \/ RunTick(n)
       \/ RunReceive(n)
       \/ RunReturn(n)
       \/ \E w \in Workers : WorkerPull(n, w)
       \/ \E w \in Workers : WorkerSend(n, w)
       \/ \E w \in Workers : WorkerCancelled(n, w)
       \/ \E w \in Workers : WorkerTimeout(n, w)
       \/ BootstrapReturn(n)
       \/ EmitEvent(n)
       \/ EmitCancelled(n)
       \/ PongSend(n)
       \/ PongCancelled(n)
       \/ PropagateSkip(n)
       \/ PropagateSend(n)
       \/ PropagateCancelled(n)
       \/ PropagateReturn(n)
       \/ Cancel(n)
       \/ Drain(n)
       \/ Observe(n)

Spec == Init /\ [][Next]_vars

----------------------------------------------------------------------------
(* A network of nodes: the transport carries what a node puts on its        *)
(* outbound channel to the receiver channel of the node the envelope is     *)
(* addressed to.  The transport drains the outbound channel within the      *)
(* per-ping timeout, nobody cancels, and the run covers the sweep each Run  *)
(* starts with (the next tick is a bootstrap period away).                  *)

Transport(src) ==
    /\ outbound[src] # <<>>
    /\ LET mw == Head(outbound[src])
           dst == mw.to.id
       IN  /\ outbound' = Put(outbound, src, Tail(outbound[src]))
           /\ inbox' = IF pc[dst] \notin {"off", "returned"} /\ mw.to = Me(dst)
                       THEN Put(inbox, dst, Append(inbox[dst],
                                                   [from |-> src, msg |-> mw.msg]))
                       ELSE inbox
    /\ UNCHANGED <<pc, cancelled, boot, hs, tm, flooded, seen, dht, events, emitted, h, sweep, wk,
                   nrecv, nticks>>

\* Run, select: case m := <-peer.receiver, the message coming from a peer
RunReceiveWire(n) ==
    /\ pc[n] = "select"
    /\ inbox[n] # <<>>
    /\ inbox' = Put(inbox, n, Tail(inbox[n]))
    /\ receiveMessageOnTheWire(n, Head(inbox[n]).msg, Head(inbox[n]).from)
    /\ sweep' = Put(sweep, n, IdleSweep)
    /\ UNCHANGED <<cancelled, boot, hs, tm, flooded, wk, nrecv, nticks>>

\* who runs, and the bootstrap addresses each is constructed with
Topologies ==
    { [n \in PeerIDs |-> CASE n = "a" -> {Me("b")}
                           [] n = "b" -> {Me("a")}
                           [] OTHER -> {}],
      [n \in PeerIDs |-> CASE n = "a" -> {Me("b")}
                           [] n = "b" -> {Me("c")}
                           [] n = "c" -> {Me("b")}
                           [] OTHER -> {}],
      [n \in PeerIDs |-> CASE n = "a" -> {Me("b")}
                           [] n = "b" -> {Me("a")}
                           [] n = "c" -> {Me("a")}
                           [] OTHER -> {}],
      [n \in PeerIDs |-> CASE n = "a" -> {Me("b"), Me("c")}
                           [] n = "b" -> {Me("c")}
                           [] n = "c" -> {Me("a")}
                           [] OTHER -> {}] }

InitNet ==
    /\ boot \in Topologies
    /\ dht = [n \in PeerIDs |-> DHTNew(Me(n), boot[n])]
    /\ pc = [n \in PeerIDs |-> IF boot[n] # {} THEN "start" ELSE "off"]
    /\ cancelled = [n \in PeerIDs |-> FALSE]
    /\ outbound = [n \in PeerIDs |-> <<>>]
    /\ events = [n \in PeerIDs |-> <<>>]
    /\ emitted = [n \in PeerIDs |-> <<>>]
    /\ h = [n \in PeerIDs |-> IdleCall]
    /\ sweep = [n \in PeerIDs |-> IdleSweep]
    /\ wk = [n \in PeerIDs |-> [w \in Workers |-> IdleWorker]]
    /\ nrecv = 0
    /\ nticks = 0
    /\ inbox = [n \in PeerIDs |-> <<>>]
    /\ hs = NoHandshake
    /\ seen = [n \in PeerIDs |-> {}]
    /\ flooded = [n \in PeerIDs |-> <<>>]
    /\ tm = NoTimeout

NextNet ==
    \E n \in PeerIDs :
       \/ RunStart(n)
       \/ RunReceiveWire(n)
       \/ \E w \in Workers : WorkerPull(n, w)
       \/ \E w \in Workers : WorkerSend(n, w)
       \/ BootstrapReturn(n)
       \/ EmitEvent(n)
       \/ PongSend(n)
       \/ PropagateSkip(n)
       \/ PropagateSend(n)
       \/ PropagateReturn(n)
       \/ Transport(n)
       \/ Observe(n)

SpecNet == InitNet /\ [][NextNet]_vars

\* the scheduling of the one node that runs: every step of Run, of its workers and of its
\* handlers is taken when it stays possible, and the ctx.Done case of Run's
\* select, which Go picks at random among the ready cases, is taken when it
\* is ready again and again.  Nothing is assumed of the transport, of the
\* observer or of the sender of inbound messages.
RunStep(n) ==
    \/ RunStart(n)
    \/ RunReturn(n)
    \/ \E w \in Workers : WorkerPull(n, w) \/ WorkerSend(n, w) \/ WorkerCancelled(n, w)
    \/ BootstrapReturn(n)
    \/ EmitEvent(n) \/ EmitCancelled(n)
    \/ PongSend(n) \/ PongCancelled(n)
    \/ PropagateSkip(n) \/ PropagateSend(n) \/ PropagateCancelled(n)
    \/ PropagateReturn(n)

FairSpec ==
    /\ Init /\ [][Next]_vars
    /\ WF_vars(\E n \in PeerIDs : RunStep(n))
    /\ SF_vars(\E n \in PeerIDs : RunReturn(n))

----------------------------------------------------------------------------
(* Broadcasts in a network whose nodes know one another.  The nodes are in  *)
(* the select of Run, their start-up sweeps done: every DHT was seeded with *)
(* all the others, so the Pings of the sweeps have changed nothing.         *)

\* the nodes of that network and the payloads their users broadcast
Meshed == {"a", "b", "c"}
Payloads == {<<"hello">>}

\* peer.Broadcast, called by the user of node n
CallBroadcast(n) ==
    /\ pc[n] = "select"
    /\ nrecv + nticks < MaxServed
    /\ nrecv' = nrecv + 1
    /\ \E body \in Payloads : Broadcast(n, body)
    /\ sweep' = Put(sweep, n, IdleSweep)
    /\ UNCHANGED <<cancelled, boot, hs, tm, flooded, wk, nticks, inbox>>

InitBcast ==
    /\ boot = [n \in PeerIDs |-> IF n \in Meshed THEN {Me(k) : k \in Meshed \ {n}} ELSE {}]
    /\ dht = [n \in PeerIDs |-> DHTNew(Me(n), boot[n])]
    /\ pc = [n \in PeerIDs |-> IF n \in Meshed THEN "select" ELSE "off"]
    /\ cancelled = [n \in PeerIDs |-> FALSE]
    /\ outbound = [n \in PeerIDs |-> <<>>]
    /\ events = [n \in PeerIDs |-> <<>>]
    /\ emitted = [n \in PeerIDs |-> <<>>]
    /\ h = [n \in PeerIDs |-> IdleCall]
    /\ sweep = [n \in PeerIDs |-> IdleSweep]
    /\ wk = [n \in PeerIDs |-> [w \in Workers |-> IdleWorker]]
    /\ nrecv = 0
    /\ nticks = 0
    /\ inbox = [n \in PeerIDs |-> <<>>]
    /\ hs = NoHandshake
    /\ seen = [n \in PeerIDs |-> {}]
    /\ flooded = [n \in PeerIDs |-> <<>>]
    /\ tm = NoTimeout

NextBcast ==
    \E n \in PeerIDs :
       \/ CallBroadcast(n)
       \/ RunReceiveWire(n)
       \/ FloodSend(n)
       \/ FloodReturn(n)
       \/ Transport(n)

SpecBcast == InitBcast /\ [][NextBcast]_vars

----------------------------------------------------------------------------
(* Pings about a peer that is known under two addresses.  "a" and "b" are   *)
(* in the select of Run, their start-up sweeps done, each seeded with the   *)
(* other; Pings that carry the address of "c" reach them from outside: its  *)
(* address, and the address "c" had before.  Delivery is reliable.          *)

\* the PeerChanged events a node emits in one run
MaxEvents == 3

Flooders == {"a", "b"}

\* the Pings that arrive from outside
FloodMsgs ==
    {NewMessage(V1, "Ping", NilPeerGroupID, Encode(Addr("c", loc))) : loc \in Locs}

\* Run, select: case m := <-peer.receiver, a Ping from outside
FloodInject(n) ==
    /\ pc[n] = "select"
    /\ nrecv + nticks < MaxServed
    /\ nrecv' = nrecv + 1
    /\ \E m \in FloodMsgs : receiveMessageOnTheWire(n, m, "env")
    /\ sweep' = Put(sweep, n, IdleSweep)
    /\ UNCHANGED <<cancelled, boot, hs, tm, flooded, wk, nticks, inbox>>

\* Run, select: case m := <-peer.receiver, within the run's events
FloodReceive(n) ==
    /\ Len(emitted[n]) < MaxEvents
    /\ RunReceiveWire(n)

InitFlood ==
    /\ boot = [n \in PeerIDs |-> IF n \in Flooders THEN {Me(k) : k \in Flooders \ {n}} ELSE {}]
    /\ dht = [n \in PeerIDs |-> DHTNew(Me(n), boot[n])]
    /\ pc = [n \in PeerIDs |-> IF n \in Flooders THEN "select" ELSE "off"]
    /\ cancelled = [n \in PeerIDs |-> FALSE]
    /\ outbound = [n \in PeerIDs |-> <<>>]
    /\ events = [n \in PeerIDs |-> <<>>]
    /\ emitted = [n \in PeerIDs |-> <<>>]
    /\ h = [n \in PeerIDs |-> IdleCall]
    /\ sweep = [n \in PeerIDs |-> IdleSweep]
    /\ wk = [n \in PeerIDs |-> [w \in Workers |-> IdleWorker]]
    /\ nrecv = 0
    /\ nticks = 0
    /\ inbox = [n \in PeerIDs |-> <<>>]
    /\ hs = NoHandshake
    /\ seen = [n \in PeerIDs |-> {}]
    /\ flooded = [n \in PeerIDs |-> <<>>]
    /\ tm = NoTimeout

NextFlood ==
    \E n \in PeerIDs :
       \/ FloodInject(n)
       \/ FloodReceive(n)
       \/ EmitEvent(n)
       \/ PongSend(n)
       \/ PropagateSkip(n)
       \/ PropagateSend(n)
       \/ PropagateReturn(n)
       \/ Transport(n)
       \/ Observe(n)

SpecFlood == InitFlood /\ [][NextFlood]_vars

----------------------------------------------------------------------------
(* bootstrap: the timeout of a Ping.  Durations are int64 counts of          *)
(* nanoseconds in the code; here an integer has IntBits bits and a second   *)
(* is Second units, so that durations under a second and products beyond   *)
(* the largest integer both occur.                                          *)

IntBits == 8
Second == 2
\* the most workers and the most addresses in the queue
MaxW == 3
MaxN == 3

MaxInt == 2 ^ (IntBits - 1) - 1

\* an int64 operation wraps around
Wrap(x) == ((x + 2 ^ (IntBits - 1)) % (2 ^ IntBits)) - 2 ^ (IntBits - 1)

\* a / b of Go, which truncates toward zero; b > 0
Quot(a, b) == IF a >= 0 THEN a \div b ELSE -((-a) \div b)

\* the inner vars of everything else
restVars == <<pc, cancelled, boot, dht, outbound, events, emitted, h, sweep, wk,
              nrecv, nticks, inbox, hs, seen, flooded>>

\* pingTimeout > 30*time.Second
OverThirty(t) == t > 30 * Second

\* peerAddr, ok := <-peerAddrsQ: with nothing in the queue the worker
\* returns; otherwise pingTimeout := W * BootstrapDuration / len(peerAddrs)
TmCompute ==
    /\ tm.at = "start"
    /\ tm' = IF tm.N = 0
             THEN [tm EXCEPT !.at = "noping"]
             ELSE [tm EXCEPT !.at = "capPeriod",
                             !.t = Wrap(Quot(Wrap(tm.W * tm.D), tm.N))]
    /\ UNCHANGED restVars

\* if pingTimeout > peer.options.BootstrapDuration
TmCapPeriod ==
    /\ tm.at = "capPeriod"
    /\ tm' = [tm EXCEPT !.at = "capThirty", !.t = IF @ > tm.D THEN tm.D ELSE @]
    /\ UNCHANGED restVars

\* if pingTimeout > 30*time.Second
TmCapThirty ==
    /\ tm.at = "capThirty"
    /\ tm' = [tm EXCEPT !.at = "floor", !.t = IF OverThirty(@) THEN 30 * Second ELSE @]
    /\ UNCHANGED restVars

\* if pingTimeout < time.Second; then context.WithTimeout and the Ping
TmFloor ==
    /\ tm.at = "floor"
    /\ tm' = [tm EXCEPT !.at = "ping", !.t = IF @ < Second THEN Second ELSE @]
    /\ UNCHANGED restVars

\* the options and the queue: W >= 1 workers, a positive period, N addresses
InitTimeout ==
    /\ \E W \in 1 .. MaxW, D \in 1 .. MaxInt, N \in 0 .. MaxN :
          tm = [at |-> "start", W |-> W, D |-> D, N |-> N, t |-> 0]
    /\ pc = [n \in PeerIDs |-> "off"]
    /\ cancelled = [n \in PeerIDs |-> FALSE]
    /\ boot = [n \in PeerIDs |-> {}]
    /\ dht = [n \in PeerIDs |-> EmptyDHT]
    /\ outbound = [n \in PeerIDs |-> <<>>]
    /\ events = [n \in PeerIDs |-> <<>>]
    /\ emitted = [n \in PeerIDs |-> <<>>]
    /\ h = [n \in PeerIDs |-> IdleCall]
    /\ sweep = [n \in PeerIDs |-> IdleSweep]
    /\ wk = [n \in PeerIDs |-> [w \in Workers |-> IdleWorker]]
    /\ nrecv = 0
    /\ nticks = 0
    /\ inbox = [n \in PeerIDs |-> <<>>]
    /\ hs = NoHandshake
    /\ seen = [n \in PeerIDs |-> {}]
    /\ flooded = [n \in PeerIDs |-> <<>>]

NextTimeout ==
    \/ TmCompute
    \/ TmCapPeriod
    \/ TmCapThirty
    \/ TmFloor

SpecTimeout == InitTimeout /\ [][NextTimeout]_vars

----------------------------------------------------------------------------
(* The PingPonger called directly.  Ping, AcceptPing and AcceptPong are the *)
(* public methods of the PingPonger: a caller may hand them any message    *)
(* and any PeerID, each call with a context of its own.  Here pc[n] =       *)
(* "select" stands for the caller being between two calls.                 *)

\* Ping up to its select: the address is looked up in the DHT
Ping(n, to) ==
    LET c == [IdleCall EXCEPT !.op = "Ping", !.arg = to, !.before = dht[n]] IN
    /\ IF ~DHTHas(dht[n], to)
       THEN Finish(n, c, "ErrPeerNotFound")
       ELSE /\ h' = Put(h, n, [c EXCEPT !.at = "ping",
                                         !.addr = DHTPeerAddress(dht[n], to)])
            /\ pc' = Put(pc, n, "handle")
    /\ UNCHANGED <<dht, outbound, events, emitted, seen>>

\* Ping, select: case pp.messages <- messageWire
PingSend(n) ==
    /\ pc[n] = "handle" /\ h[n].at = "ping"
    /\ HasRoom(n)
    /\ LET mw == MessageOnTheWire(h[n].addr, PingMessage(n)) IN
       /\ outbound' = Put(outbound, n, Append(outbound[n], mw))
       /\ Finish(n, [h[n] EXCEPT !.sent = Append(@, mw)], "nil")
    /\ UNCHANGED <<cancelled, boot, hs, tm, flooded, seen, dht, events, emitted, sweep, wk, nrecv, nticks, inbox>>

\* Ping, select: case <-ctx.Done()
PingCancelled(n) ==
    /\ pc[n] = "handle" /\ h[n].at = "ping"
    /\ cancelled[n]
    /\ Finish(n, [h[n] EXCEPT !.stopped = TRUE], "Canceled")
    /\ UNCHANGED <<cancelled, boot, hs, tm, flooded, seen, dht, outbound, events, emitted, sweep, wk,
                   nrecv, nticks, inbox>>

\* the messages a caller hands to the handlers: the ones of InjectMsgs, and
\* unsupported versions under every variant, with and without a body that
\* decodes
CallMsgs ==
    InjectMsgs
    \cup {NewMessage(V2, v, NilPeerGroupID, b) :
             v \in {"Ping", "Pong", "Cast"}, b \in {Encode(Addr("c", 1)), <<>>}}

\* a call begins with a context that is not done
CallBegins(n) ==
    /\ pc[n] = "select"
    /\ nrecv + nticks < MaxServed
    /\ nrecv' = nrecv + 1
    /\ cancelled' = Put(cancelled, n, FALSE)
    /\ UNCHANGED <<boot, hs, tm, flooded, sweep, wk, nticks, inbox>>

CallAcceptPing(n) ==
    /\ CallBegins(n)
    /\ \E m \in CallMsgs : AcceptPing(n, m, "caller")

CallAcceptPong(n) ==
    /\ CallBegins(n)
    /\ \E m \in CallMsgs : AcceptPong(n, m, "caller")

CallPing(n) ==
    /\ CallBegins(n)
    /\ \E to \in PeerIDs : Ping(n, to)

InitCall ==
    /\ \E s \in Seeds :
          /\ boot = [n \in PeerIDs |-> IF n = "a" THEN s ELSE {}]
          /\ dht = [n \in PeerIDs |-> IF n = "a" THEN DHTNew(Me(n), s) ELSE EmptyDHT]
    /\ pc = [n \in PeerIDs |-> IF n = "a" THEN "select" ELSE "off"]
    /\ cancelled = [n \in PeerIDs |-> FALSE]
    /\ outbound = [n \in PeerIDs |-> <<>>]
    /\ events = [n \in PeerIDs |-> <<>>]
    /\ emitted = [n \in PeerIDs |-> <<>>]
    /\ h = [n \in PeerIDs |-> IdleCall]
    /\ sweep = [n \in PeerIDs |-> IdleSweep]
    /\ wk = [n \in PeerIDs |-> [w \in Workers |-> IdleWorker]]
    /\ nrecv = 0
    /\ nticks = 0
    /\ inbox = [n \in PeerIDs |-> <<>>]
    /\ hs = NoHandshake
    /\ seen = [n \in PeerIDs |-> {}]
    /\ flooded = [n \in PeerIDs |-> <<>>]
    /\ tm = NoTimeout

NextCall ==
    \E n \in PeerIDs :
       \/ CallAcceptPing(n)
       \/ CallAcceptPong(n)
       \/ CallPing(n)
       \/ PingSend(n)
       \/ PingCancelled(n)
       \/ EmitEvent(n)
       \/ EmitCancelled(n)
       \/ PongSend(n)
       \/ PongCancelled(n)
       \/ PropagateSkip(n)
       \/ PropagateSend(n)
       \/ PropagateCancelled(n)
       \/ PropagateReturn(n)
       \/ Cancel(n)
       \/ Drain(n)
       \/ Observe(n)

SpecCall == InitCall /\ [][NextCall]_vars

----------------------------------------------------------------------------
(* package handshake: the ECDSA handshake over one stream.                  *)
(*                                                                          *)
(* A key pair is named by its owner, and the name stands for the public    *)
(* key.  A signature names the private key that made it and the hash it was *)
(* made over; an ECIES ciphertext names the public key it was made for and  *)
(* the plaintext.  The stream carries one item for each surge.Marshal.      *)

\* the length of the half-key each side generates
KeyLen == 32
\* the items the stream holds unread in each direction; with 0 a write
\* returns only when its item has been read
StreamCap == 1

Roles == {"cli", "srv"}
Other(p) == IF p = "cli" THEN "srv" ELSE "cli"

\* the key pair of the honest initiator, of the honest responder and of the
\* party that is neither
KeyOf(p) == IF p = "cli" THEN "C" ELSE "S"
Intruder == "E"

\* id.NewSignatory: the hash of a public key
NewSignatory(pub) == <<"signatory", pub>>

PubItem(pub) == [kind |-> "pub", pub |-> pub]
SigItem(by, over) == [kind |-> "sig", by |-> by, over |-> over]
KeyItem(to, pt) == [kind |-> "key", to |-> to, pt |-> pt]
\* bytes that are no public key, no signature and no ciphertext
Garbage == [kind |-> "bad"]

\* crypto.DecompressPubkey
DecompressPubkey(item) ==
    IF item.kind = "pub"
    THEN [ok |-> TRUE, pub |-> item.pub]
    ELSE [ok |-> FALSE, pub |-> "none"]

\* crypto.SigToPub: the key recovered from a signature is the signer's when
\* the signature was made over the hash, and some other key when it was not
SigToPub(hash, item) ==
    IF item.kind # "sig" THEN [ok |-> FALSE, pub |-> "none"]
    ELSE IF item.over = hash THEN [ok |-> TRUE, pub |-> item.by]
    ELSE [ok |-> TRUE, pub |-> "unrelated"]

\* ecies.PrivateKey.Decrypt with the private key of `own`
Decrypt(own, item) ==
    IF item.kind = "key" /\ item.to = own
    THEN [ok |-> TRUE, pt |-> item.pt]
    ELSE [ok |-> FALSE, pt |-> <<>>]

\* a ^ b on bytes
RECURSIVE XorByte(_, _)
XorByte(a, b) ==
    IF a = 0 /\ b = 0 THEN 0
    ELSE ((a + b) % 2) + 2 * XorByte(a \div 2, b \div 2)

\* xor: a key as long as k1; k2[i] is read for every index of k1, which
\* panics (index out of range) when k2 is the shorter
xorFirstOnly(k1, k2) ==
    [panic |-> Len(k2) < Len(k1), key |-> IF Len(k2) < Len(k1) THEN <<>> ELSE k1]

xor(k1, k2) ==
    IF Len(k2) < Len(k1)
    THEN [panic |-> TRUE, key |-> <<>>]
    ELSE [panic |-> FALSE, key |-> [i \in 1 .. Len(k1) |-> XorByte(k1[i], k2[i])]]

\* the half-keys rand.Read may produce
Fill(b, len) == [i \in 1 .. len |-> b]
Ramp(len) == [i \in 1 .. len |-> (7 * i) % 256]
RandomKeys == {Fill(255, KeyLen), Ramp(KeyLen)}

\* the order of the reads and writes of Handshake and of AcceptHandshake
HandshakeOrder == <<"wPub", "wSig", "rPub", "rSig", "wKey", "rKey">>

AcceptWritesFirst == <<"wPub", "wSig", "rPub", "rSig", "rKey", "wKey">>

AcceptOrder == <<"rPub", "rSig", "wPub", "wSig", "rKey", "wKey">>

OrderOf(p) == IF p = "cli" THEN HandshakeOrder ELSE AcceptOrder

\* a party that runs the code, and an end of the stream that does not
NewParty ==
    [at |-> 1, out |-> "running", err |-> "nil", half |-> <<>>, peerPub |-> "none",
     peerHalf |-> <<>>, key |-> <<>>, remote |-> "none"]
NotRun == [NewParty EXCEPT !.out = "absent"]

Honest(p) == hs.mode # "off" /\ hs.party[p].out # "absent"
Running(p) == Honest(p) /\ hs.party[p].out = "running"
StepOf(p) == IF hs.party[p].at <= Len(OrderOf(p)) THEN OrderOf(p)[hs.party[p].at] ELSE "return"

\* the stream end p writes to is wire[p]; the item of a write on a stream
\* without buffer stays there until it is read, and the write returns then
SlotsOf(cap) == IF cap = 0 THEN 1 ELSE cap
CanWrite(p) == Len(hs.wire[p]) < SlotsOf(hs.cap)
Flushed(p) == hs.cap > 0 \/ hs.wire[p] = <<>>

SetParty(p, r) == hs' = [hs EXCEPT !.party[p] = r]
Fail(p, err) == SetParty(p, [hs.party[p] EXCEPT !.out = "error", !.err = err])

\* everything but the handshake
peerVars == <<pc, cancelled, boot, dht, outbound, events, emitted, h, sweep, wk,
              nrecv, nticks, inbox, seen, flooded, tm>>

\* handshaker.filter.Filter(signatory) is false
AcceptsEveryone(p, pub) == FALSE

Rejected(p, pub) == pub \in hs.rejects[p]

\* what the next write of p puts on the stream, k being the bytes rand.Read
\* gives when the write is the one of the half-key
WrittenItem(p, k) ==
    CASE StepOf(p) = "wPub" -> PubItem(KeyOf(p))
      [] StepOf(p) = "wSig" -> SigItem(KeyOf(p), NewSignatory(KeyOf(p)))
      [] StepOf(p) = "wKey" -> KeyItem(hs.party[p].peerPub, k)

\* writePubKeyWithSignature and encryptAndWriteKey: one surge.Marshal
HSWrite(p) ==
    /\ Running(p) /\ StepOf(p) \in {"wPub", "wSig", "wKey"}
    /\ ~hs.broken /\ CanWrite(p)
    /\ \E k \in IF StepOf(p) = "wKey" THEN RandomKeys ELSE {<<>>} :
          hs' = [hs EXCEPT
                   !.wire[p] = Append(@, WrittenItem(p, k)),
                   !.party[p] = [@ EXCEPT !.at = @ + 1,
                                          !.half = IF StepOf(p) = "wKey" THEN k ELSE @]]
    /\ UNCHANGED peerVars

\* what p makes of the item it reads: an error, or the next step
ReadItem(p, item) ==
    LET me == hs.party[p]
        pub == DecompressPubkey(item)
        ver == SigToPub(NewSignatory(me.peerPub), item)
        dec == Decrypt(KeyOf(p), item)
        bad(err) == [me EXCEPT !.out = "error", !.err = err]
    IN  CASE StepOf(p) = "rPub" ->
               IF ~pub.ok THEN bad("decompressing pubkey")
               ELSE [me EXCEPT !.at = @ + 1, !.peerPub = pub.pub]
          [] StepOf(p) = "rSig" ->
               IF ~ver.ok THEN bad("verifying pubkey")
               ELSE IF NewSignatory(ver.pub) # NewSignatory(me.peerPub)
               THEN bad("verifying signatory")
               ELSE IF Rejected(p, me.peerPub) THEN bad("filtering")
               ELSE [me EXCEPT !.at = @ + 1, !.remote = me.peerPub]
          [] StepOf(p) = "rKey" ->
               IF ~dec.ok THEN bad("decrypting key")
               ELSE [me EXCEPT !.at = @ + 1, !.peerHalf = dec.pt]

\* readPubKeyWithSignature and readAndDecryptKey: one surge.Unmarshal and what
\* follows it
HSRead(p) ==
    /\ Running(p) /\ StepOf(p) \in {"rPub", "rSig", "rKey"}
    /\ Flushed(p)
    /\ hs.wire[Other(p)] # <<>>
    /\ hs' = [hs EXCEPT !.wire[Other(p)] = Tail(@),
                        !.party[p] = ReadItem(p, Head(hs.wire[Other(p)]))]
    /\ UNCHANGED peerVars

\* a read or a write on a stream that is broken returns an error
HSIOError(p) ==
    /\ Running(p) /\ hs.broken
    /\ \/ ~Flushed(p)
       \/ StepOf(p) \in {"wPub", "wSig", "wKey"}
       \/ StepOf(p) \in {"rPub", "rSig", "rKey"} /\ hs.wire[Other(p)] = <<>>
    /\ Fail(p, "io")
    /\ UNCHANGED peerVars

\* the key NewGCMSession is given
SessionKey(p) ==
    IF p = "cli"
    THEN xor(hs.party[p].half, hs.party[p].peerHalf)
    ELSE xor(hs.party[p].peerHalf, hs.party[p].half)

\* NewGCMSession: whether a session is made.  A session is keyed on a secret
\* of KeyLen bytes; for a key of another length the constructor may refuse
\* or not
NewGCMSession(key) == IF Len(key) = KeyLen THEN {TRUE} ELSE BOOLEAN

\* return NewGCMSession(xor(...), id.NewSignatory(...))
HSReturn(p) ==
    /\ Running(p) /\ StepOf(p) = "return"
    /\ Flushed(p)
    /\ LET x == SessionKey(p) IN
       IF x.panic
       THEN SetParty(p, [hs.party[p] EXCEPT !.out = "panic"])
       ELSE \E made \in NewGCMSession(x.key) :
               IF made
               THEN SetParty(p, [hs.party[p] EXCEPT !.out = "session", !.key = x.key])
               ELSE Fail(p, "session")
    /\ UNCHANGED peerVars

\* the context given to Handshake or AcceptHandshake is cancelled; neither
\* function reads its ctx
HSCancel(p) ==
    /\ Running(p) /\ ~hs.ctx[p]
    /\ hs' = [hs EXCEPT !.ctx[p] = TRUE]
    /\ UNCHANGED peerVars

\* the connection drops
Break ==
    /\ hs.mode # "off" /\ ~hs.broken
    /\ hs' = [hs EXCEPT !.broken = TRUE]
    /\ UNCHANGED peerVars

\* a party whose handshake has failed terminates the connection
Terminate(p) ==
    /\ Honest(p) /\ hs.party[p].out \in {"error", "panic"}
    /\ ~hs.broken
    /\ hs' = [hs EXCEPT !.broken = TRUE]
    /\ UNCHANGED peerVars

\* what an end of the stream that does not run the code may send to the
\* other end: the identity of the honest party it stands in for, as that
\* party sends it to everyone, its own identity, a signature of its own over
\* the other's signatory, half-keys of KeyLen bytes, of fewer and of more,
\* a ciphertext the receiver cannot decrypt, and bytes that are nothing
IntruderItems(q) ==
    {PubItem(KeyOf(q)), PubItem(Intruder), Garbage,
     SigItem(KeyOf(q), NewSignatory(KeyOf(q))),
     SigItem(Intruder, NewSignatory(Intruder)),
     SigItem(Intruder, NewSignatory(KeyOf(q))),
     KeyItem(KeyOf(Other(q)), Fill(1, KeyLen)),
     KeyItem(KeyOf(Other(q)), Fill(1, KeyLen \div 2)),
     KeyItem(KeyOf(Other(q)), Fill(1, KeyLen + KeyLen \div 4)),
     KeyItem(Intruder, Fill(1, KeyLen))}

\* the intruder sends an item when the last one has been read, as long as
\* the other end is in its handshake
IntruderSends(q) ==
    /\ hs.mode # "off" /\ ~Honest(q)
    /\ Running(Other(q))
    /\ ~hs.broken /\ hs.wire[q] = <<>>
    /\ \E item \in IntruderItems(q) : hs' = [hs EXCEPT !.wire[q] = Append(@, item)]
    /\ UNCHANGED peerVars

IntruderReads(q) ==
    /\ hs.mode # "off" /\ ~Honest(q)
    /\ hs.wire[Other(q)] # <<>>
    /\ hs' = [hs EXCEPT !.wire[Other(q)] = Tail(@)]
    /\ UNCHANGED peerVars

\* the handshakes: two honest parties, or one and an intruder at the other
\* end; a stream with and without buffer; filters that accept everyone or
\* reject the honest party of the other end
HSModes == {"honest", "intruderCli", "intruderSrv"}

NewHandshake(mode, cap, rc, rs) ==
    [mode |-> mode, cap |-> cap, broken |-> FALSE,
     wire |-> [p \in Roles |-> <<>>],
     ctx |-> [p \in Roles |-> FALSE],
     rejects |-> [p \in Roles |-> IF p = "cli" THEN rc ELSE rs],
     party |-> [p \in Roles |->
                  IF (mode = "intruderCli" /\ p = "cli") \/ (mode = "intruderSrv" /\ p = "srv")
                  THEN NotRun ELSE NewParty]]

InitHS ==
    /\ \E mode \in HSModes, cap \in {0, StreamCap}, rc \in {{}, {"S"}}, rs \in {{}, {"C"}} :
          /\ mode = "intruderCli" => rc = {}
          /\ mode = "intruderSrv" => rs = {}
          /\ hs = NewHandshake(mode, cap, rc, rs)
    /\ pc = [n \in PeerIDs |-> "off"]
    /\ cancelled = [n \in PeerIDs |-> FALSE]
    /\ boot = [n \in PeerIDs |-> {}]
    /\ dht = [n \in PeerIDs |-> EmptyDHT]
    /\ outbound = [n \in PeerIDs |-> <<>>]
    /\ events = [n \in PeerIDs |-> <<>>]
    /\ emitted = [n \in PeerIDs |-> <<>>]
    /\ h = [n \in PeerIDs |-> IdleCall]
    /\ sweep = [n \in PeerIDs |-> IdleSweep]
    /\ wk = [n \in PeerIDs |-> [w \in Workers |-> IdleWorker]]
    /\ nrecv = 0
    /\ nticks = 0
    /\ inbox = [n \in PeerIDs |-> <<>>]
    /\ seen = [n \in PeerIDs |-> {}]
    /\ flooded = [n \in PeerIDs |-> <<>>]
    /\ tm = NoTimeout

NextHS ==
    \/ \E p \in Roles :
          \/ HSWrite(p)
          \/ HSRead(p)
          \/ HSIOError(p)
          \/ HSReturn(p)
          \/ HSCancel(p)
          \/ Terminate(p)
          \/ IntruderSends(p)
          \/ IntruderReads(p)
    \/ Break

SpecHS == InitHS /\ [][NextHS]_vars

\* the scheduling of the handshakes: a party that can take its next step
\* takes it, and a failed handshake is followed by the termination of the
\* connection.  Nothing is assumed of the intruder or of the network.
HSStep(p) == HSWrite(p) \/ HSRead(p) \/ HSIOError(p) \/ HSReturn(p) \/ Terminate(p)

FairSpecHS ==
    /\ InitHS /\ [][NextHS]_vars
    /\ WF_vars(\E p \in Roles : HSStep(p))

----------------------------------------------------------------------------
(* What the claims speak of *)

\* the last handler call of node n has returned and its record is at hand
CallDone(n) == h[n].at = "idle" /\ h[n].res # "none"

\* m is a V1 Ping whose body decodes
ValidPing(m) == m.version = V1 /\ m.variant = "Ping" /\ Decode(m.body).ok

ValidPong(m) == m.version = V1 /\ m.variant = "Pong" /\ Decode(m.body).ok

\* the step in which Run of node n takes a message off its receiver channel
Received(n) ==
    /\ pc[n] = "select"
    /\ h'[n].msg # NoMsg
    /\ nrecv' # nrecv

\* the positions of the Pings in a sequence of envelopes
PingsAt(sq) == {i \in 1 .. Len(sq) : sq[i].msg.variant = "Ping"}

\* a call leaves node n's DHT, channels and events as they were
Untouched(n) ==
    /\ dht'[n] = dht[n]
    /\ outbound'[n] = outbound[n]
    /\ events'[n] = events[n]
    /\ emitted'[n] = emitted[n]

----------------------------------------------------------------------------
\* C1: when AcceptPing has handled a valid V1 Ping whose address P is not this
\* node, the DHT update reported a change and the context was not cancelled,
\* the Pings it enqueued carry the body it received, byte for byte, and go to
\* every address of the DHT but P's, once each, and nowhere else.
C1_PropagatesToAllButDecoded ==
    \A n \in PeerIDs :
       (CallDone(n) /\ ValidPing(h[n].msg) /\ h[n].updated /\ ~cancelled[n])
       => LET P == Decode(h[n].msg.body).addr
              targets == {a \in DHTPeerAddresses(dht[n]) : a.id # P.id}
              fwd(a) == MessageOnTheWire(a,
                           NewMessage(V1, "Ping", NilPeerGroupID, h[n].msg.body))
          IN  /\ P.id # n
              /\ \A a \in targets :
                    Cardinality({i \in PingsAt(h[n].sent) : h[n].sent[i] = fwd(a)}) = 1
              /\ \A i \in PingsAt(h[n].sent) :
                    \E a \in targets : h[n].sent[i] = fwd(a)

\* a Ping whose body has a trailing byte was propagated to a peer
C1_Witness ==
    /\ CallDone("a") /\ ValidPing(h["a"].msg) /\ h["a"].updated /\ ~cancelled["a"]
    /\ h["a"].msg.body = <<"c", 1, 0>>
    /\ PingsAt(h["a"].sent) # {}

\* C3: a V1 Ping whose body decodes to an address with this node's PeerID
\* returns nil in the step that receives it and leaves the DHT, the outbound
\* channel and the event channel as they were.
C3_SelfPingUntouched ==
    [][\A n \in PeerIDs :
          (Received(n) /\ ValidPing(h'[n].msg) /\ Decode(h'[n].msg.body).addr.id = n)
          => (CallDone(n)' /\ h'[n].res = "nil" /\ pc'[n] = "select" /\ Untouched(n))]_vars

\* a Ping carrying this node's PeerID at another locator has been handled
C3_Witness ==
    /\ CallDone("a")
    /\ h["a"].msg = NewMessage(V1, "Ping", NilPeerGroupID, Encode(Addr("a", 2)))

\* C4: a V1 Ping whose address is stored in the DHT as it is returns nil in
\* the step that receives it: no event, no Pong and no Ping are produced.
C4_KnownAddressStops ==
    [][\A n \in PeerIDs :
          (/\ Received(n) /\ ValidPing(h'[n].msg)
           /\ LET P == Decode(h'[n].msg.body).addr IN P.id # n /\ dht[n][P.id] = P.loc)
          => (CallDone(n)' /\ h'[n].res = "nil" /\ pc'[n] = "select" /\ Untouched(n))]_vars

\* a Ping for a stored address, in a body that is not the canonical one
C4_Witness ==
    /\ CallDone("a") /\ h["a"].msg.variant = "Ping"
    /\ h["a"].msg.body = <<"c", 1, 0>>
    /\ h["a"].before["c"] = 1

\* C6: every call that changed the DHT emitted one PeerChanged for the
\* address, and a call that did not change it emitted none.
C6_EventPerChange ==
    \A n \in PeerIDs :
       CallDone(n)
       => /\ (dht[n] # h[n].before) => (h[n].evs = <<EventPeerChanged(h[n].addr)>>)
          /\ (dht[n] = h[n].before) => (h[n].evs = <<>>)

\* C7: the DHT of a node holds no entry under the node's own PeerID, and no
\* PeerChanged event for that PeerID is emitted.
C7_MeNeverAPeer ==
    \A n \in PeerIDs :
       /\ dht[n][n] = 0
       /\ \A i \in 1 .. Len(emitted[n]) : emitted[n][i].addr.id # n

\* a Pong carrying this node's PeerID has been handled
C7_Witness ==
    /\ CallDone("a") /\ ValidPong(h["a"].msg)
    /\ Decode(h["a"].msg.body).addr.id = "a"
    /\ h["a"].res = "nil"

\* C8: a sweep that was not cancelled and in which no Ping failed has issued
\* a Ping to every address the DHT held when it began.
C8_SweepPingsAll ==
    \A n \in PeerIDs :
       (pc[n] = "select" /\ ~cancelled[n] /\ sweep[n].failed = {})
       => sweep[n].pinged = sweep[n].all

\* C9: once the context is cancelled, Run returns: from some point on, every
\* node whose context is cancelled has returned from Run (a cancelled context
\* stays cancelled, and a Run that has returned stays returned).
C9_RunReturns ==
    <>[](\A n \in PeerIDs : cancelled[n] => pc[n] = "returned")

\* cancelled while a worker of the sweep is blocked on the full outbound channel
C9_Witness ==
    /\ cancelled["a"] /\ pc["a"] = "bootstrap"
    /\ ~HasRoom("a")
    /\ \E w \in Workers : wk["a"][w].st = "ping"

\* C10: once the context is cancelled, a sweep in progress enqueues no
\* further message on the outbound channel.
C10_NoSendAfterCancel ==
    [][\A n \in PeerIDs :
          (cancelled[n] /\ pc[n] = "bootstrap")
          => Len(outbound'[n]) <= Len(outbound[n])]_vars

----------------------------------------------------------------------------
(* The network *)

\* every running node is in Run's select and nothing is in flight
Quiet ==
    \A n \in PeerIDs :
       /\ pc[n] \in {"off", "select"}
       /\ outbound[n] = <<>>
       /\ inbox[n] = <<>>

\* "a" and "b" alone, each constructed with the other as its bootstrap address
TwoNodes ==
    /\ boot["a"] = {Me("b")} /\ boot["b"] = {Me("a")}
    /\ boot["c"] = {} /\ boot["d"] = {}

\* C2: a node that handles a Ping which came over the connection of peer F
\* enqueues no Ping with that body for F.
C2_NeverBackToForwarder ==
    \A n \in PeerIDs :
       (h[n].msg.variant = "Ping" /\ h[n].from \in PeerIDs)
       => \A i \in PingsAt(h[n].sent) :
             ~(h[n].sent[i].to.id = h[n].from /\ h[n].sent[i].msg.body = h[n].msg.body)

\* C5, as stated: once the sweeps are done and everything is delivered, each
\* of the two nodes holds the other and has emitted one PeerChanged for it.
C5_OneEventEach ==
    (TwoNodes /\ Quiet)
    => /\ Me("b") \in DHTPeerAddresses(dht["a"])
       /\ Me("a") \in DHTPeerAddresses(dht["b"])
       /\ emitted["a"] = <<EventPeerChanged(Me("b"))>>
       /\ emitted["b"] = <<EventPeerChanged(Me("a"))>>

\* C5, amended: once the sweeps are done and everything is delivered, each of
\* the two nodes holds the other and neither has emitted an event, the
\* addresses pinged being the ones the DHTs were seeded with.
C5_NoEventForSeeded ==
    (TwoNodes /\ Quiet)
    => /\ Me("b") \in DHTPeerAddresses(dht["a"])
       /\ Me("a") \in DHTPeerAddresses(dht["b"])
       /\ emitted["a"] = <<>>
       /\ emitted["b"] = <<>>

\* both nodes have handled the other's Ping and the network is quiet
C5_Witness ==
    /\ TwoNodes /\ Quiet
    /\ CallDone("a") /\ h["a"].from = "b" /\ ValidPing(h["a"].msg)
    /\ CallDone("b") /\ h["b"].from = "a" /\ ValidPing(h["b"].msg)

----------------------------------------------------------------------------
(* The PingPonger called directly *)

\* the step in which a call of operation op on node n begins
Called(n, op) ==
    /\ pc[n] = "select"
    /\ nrecv' # nrecv
    /\ h'[n].op = op

\* C16: AcceptPing and AcceptPong, handed a message whose version is not V1,
\* whatever its variant and its body, return at once the error for the
\* unsupported version, carrying that version (not the error for the variant
\* when the variant is wrong too), and leave the DHT, the outbound channel
\* and the events as they were.
C16_VersionFirst ==
    [][\A n \in PeerIDs :
          ((Called(n, "AcceptPing") \/ Called(n, "AcceptPong")) /\ h'[n].msg.version # V1)
          => /\ CallDone(n)'
             /\ h'[n].res = "ErrMessageVersionIsNotSupported"
             /\ h'[n].arg = h'[n].msg.version
             /\ Untouched(n)]_vars

\* AcceptPing has returned from a V2 message that is not a Ping either, and
\* AcceptPong would have had a body that does not decode
C16_Witness ==
    /\ CallDone("a") /\ h["a"].op = "AcceptPing"
    /\ h["a"].msg = NewMessage(V2, "Pong", NilPeerGroupID, <<>>)

\* C17: Ping for a PeerID the DHT does not hold returns the not-found error
\* in the step that calls it and enqueues nothing.  For a PeerID it holds,
\* the call stays blocked while the channel is full and the context is not
\* done; it returns either nil, with room in the channel, having enqueued
\* one V1 Ping of the nil group whose body is this node's address, addressed
\* to the stored address, or the cancellation error, the context being
\* done, having enqueued nothing.
C17_PingContract ==
    [][\A n \in PeerIDs :
          /\ (Called(n, "Ping") /\ ~DHTHas(dht[n], h'[n].arg))
             => (CallDone(n)' /\ h'[n].res = "ErrPeerNotFound" /\ Untouched(n))
          /\ (Called(n, "Ping") /\ DHTHas(dht[n], h'[n].arg))
             => (h'[n].at = "ping" /\ Untouched(n))
          /\ (h[n].op = "Ping" /\ h[n].at = "ping" /\ h'[n] # h[n])
             => \/ /\ HasRoom(n)
                   /\ h'[n].res = "nil" /\ CallDone(n)'
                   /\ outbound'[n] = Append(outbound[n],
                         MessageOnTheWire(Addr(h[n].arg, h[n].before[h[n].arg]),
                            NewMessage(V1, "Ping", NilPeerGroupID, Encode(Me(n)))))
                \/ /\ cancelled[n]
                   /\ h'[n].res = "Canceled" /\ CallDone(n)'
                   /\ outbound'[n] = outbound[n]]_vars

\* a Ping has gone to the address an earlier call stored for the PeerID
C17_Witness ==
    /\ CallDone("a") /\ h["a"].op = "Ping" /\ h["a"].res = "nil"
    /\ h["a"].arg = "b" /\ h["a"].before["b"] = 2
    /\ Len(h["a"].sent) = 1 /\ h["a"].sent[1].to = Addr("b", 2)

\* C18: a call that stopped because its context was done returns the
\* context's error as it is.
C18_CancellationUnchanged ==
    \A n \in PeerIDs :
       (CallDone(n) /\ h[n].stopped) => h[n].res = "Canceled"

\* C19: a call of AcceptPing that changed the DHT and has returned nil has
\* enqueued one Pong, before every Ping it propagated: a V1 Pong of the nil
\* group whose body is this node's address, addressed to the peer over whose
\* connection the Ping arrived.
C19_PongToSender ==
    \A n \in PeerIDs :
       (/\ CallDone(n) /\ h[n].op = "AcceptPing" /\ h[n].from \in PeerIDs
        /\ dht[n] # h[n].before /\ h[n].res = "nil")
       => /\ Cardinality({i \in 1 .. Len(h[n].sent) : h[n].sent[i].msg.variant = "Pong"}) = 1
          /\ h[n].sent[1].msg = NewMessage(V1, "Pong", NilPeerGroupID, Encode(Me(n)))
          /\ h[n].sent[1].to.id = h[n].from

----------------------------------------------------------------------------
(* The handshake *)

Returned(p, out) == Honest(p) /\ hs.party[p].out = out

\* two honest parties on one stream
HonestPair == hs.mode = "honest"

\* C11: when Handshake and AcceptHandshake of two honest parties on one
\* stream have both returned a session, the two session keys are the same
\* KeyLen bytes, each byte the XOR of the bytes of the two half-keys.
C11_KeyAgreement ==
    (HonestPair /\ Returned("cli", "session") /\ Returned("srv", "session"))
    => LET c == hs.party["cli"]
           v == hs.party["srv"]
       IN  /\ c.key = v.key
           /\ Len(c.key) = KeyLen
           /\ \A i \in 1 .. KeyLen : c.key[i] = XorByte(c.half[i], v.half[i])

\* both have returned a session from half-keys that differ in every byte
C11_Witness ==
    /\ HonestPair /\ Returned("cli", "session") /\ Returned("srv", "session")
    /\ hs.party["cli"].half = Ramp(KeyLen)
    /\ hs.party["srv"].half = Fill(255, KeyLen)

\* the responder's filter rejects the initiator
RejectsInitiator == HonestPair /\ "C" \in hs.rejects["srv"]

\* C12: when the responder's filter rejects the initiator's signatory, no
\* side ever has a session, and from some point on both Handshake and
\* AcceptHandshake have returned an error.
C12_FilterRejects ==
    /\ [](RejectsInitiator => (~Returned("cli", "session") /\ ~Returned("srv", "session")))
    /\ <>[](RejectsInitiator => (Returned("cli", "error") /\ Returned("srv", "error")))

\* the responder has returned the filter's error while the initiator waits
\* for the responder's public key on a stream that is not broken
C12_Witness ==
    /\ RejectsInitiator /\ ~hs.broken
    /\ Returned("srv", "error") /\ hs.party["srv"].err = "filtering"
    /\ Running("cli") /\ StepOf("cli") = "rPub"

\* C13: Handshake and AcceptHandshake return a session or an error, and a
\* session only when the identity read was verified and passed the filter
\* and the half-key read has KeyLen bytes; the session key has KeyLen bytes.
C13_FailureModel ==
    \A p \in Roles :
       Honest(p)
       => /\ hs.party[p].out \in {"running", "session", "error"}
          /\ hs.party[p].out = "session"
             => /\ hs.party[p].remote = hs.party[p].peerPub
                /\ ~Rejected(p, hs.party[p].remote)
                /\ Len(hs.party[p].peerHalf) = KeyLen
                /\ Len(hs.party[p].key) = KeyLen

\* C14: two honest parties whose filters accept, on a stream that does not
\* break, both end with a session, whatever the buffering of the stream.
C14_BothComplete ==
    <>[]((HonestPair /\ hs.rejects["cli"] = {} /\ hs.rejects["srv"] = {} /\ ~hs.broken)
         => (Returned("cli", "session") /\ Returned("srv", "session")))

\* both have a session over a stream without buffer that did not break
C14_Witness ==
    /\ HonestPair /\ hs.cap = 0 /\ ~hs.broken
    /\ Returned("cli", "session") /\ Returned("srv", "session")

\* C15: from some point on, a party whose context is cancelled while the
\* stream stays open has returned.
C15_HonoursCancellation ==
    <>[](\A p \in Roles :
            (Honest(p) /\ hs.ctx[p] /\ ~hs.broken) => hs.party[p].out # "running")

----------------------------------------------------------------------------
(* Broadcasts *)

\* C20: a node that handles a Broadcast which came over the connection of
\* peer F enqueues that message for every peer it knows but F, and not for F.
C20_NoFloodBack ==
    \A n \in PeerIDs :
       (h[n].op = "AcceptBroadcast" /\ h[n].from \in PeerIDs)
       => \A i \in 1 .. Len(h[n].sent) : h[n].sent[i].to.id # h[n].from

----------------------------------------------------------------------------
(* Who is at the other end *)

\* the private keys held at the end of the stream opposite to p
HeldOpposite(p) == IF Honest(Other(p)) THEN {KeyOf(Other(p))} ELSE {Intruder}

\* C23: a session returned by Handshake or AcceptHandshake names as remote
\* signatory a key pair whose private key is held at the other end of the
\* stream.
C23_RemoteHoldsKey ==
    \A p \in Roles :
       Returned(p, "session") => hs.party[p].remote \in HeldOpposite(p)

----------------------------------------------------------------------------
(* The flood of Pings *)

\* C21: no node enqueues the Ping for an address twice for the same peer.
C21_PropagatedOnce ==
    \A n \in PeerIDs :
       \A i, j \in 1 .. Len(flooded[n]) : flooded[n][i] = flooded[n][j] => i = j

----------------------------------------------------------------------------
(* The timeout of a bootstrap Ping *)

Min(a, b) == IF a < b THEN a ELSE b
Max(a, b) == IF a > b THEN a ELSE b

\* C22: the timeout a worker gives its Ping is W * period / N brought into
\* the range from one second to the lesser of the period and 30 seconds: it
\* is a second at least and no more than the period and than 30 seconds; and
\* a worker computes a timeout and pings exactly when the queue was not empty.
C22_TimeoutClamped ==
    /\ tm.at = "ping"
       => /\ tm.N >= 1
          /\ tm.t = Max(Second, Min((tm.W * tm.D) \div tm.N, Min(tm.D, 30 * Second)))
          /\ tm.t >= Second
          /\ tm.t <= Min(tm.D, 30 * Second)
    /\ tm.at = "noping" => tm.N = 0

----------------------------------------------------------------------------
(* Run, one thing at a time *)

\* an accept handler started by Run of node n has not returned
HandlerActive(n) == h[n].at # "idle"

\* a bootstrap sweep of node n has not returned
SweepActive(n) == \E w \in Workers : wk[n][w].st # "idle"

\* C24: Run does one thing at a time.  A sweep and an accept handler are
\* never under way together; while either is under way, blocked or not, Run
\* takes no message off the receive channel and serves no tick; and a
\* message is taken only after the handler of the one before has returned,
\* its own handler starting in that step, so that messages are handled in
\* the order in which they are taken.
C24_OneAtATime ==
    [][\A n \in {"a"} :
         /\ ~(HandlerActive(n)' /\ SweepActive(n)')
         /\ (HandlerActive(n) \/ SweepActive(n))
            => /\ nrecv' = nrecv
               /\ nticks' = nticks
               /\ Len(inbox'[n]) >= Len(inbox[n])
         /\ nrecv' # nrecv
            => /\ h'[n].msg \in InjectMsgs
               /\ h'[n].sent = <<>> /\ h'[n].evs = <<>>
               /\ ~SweepActive(n)'
         /\ nticks' # nticks
            => /\ SweepActive(n)'
               /\ ~HandlerActive(n)']_vars

\* a handler waits to send its Pong on a full outbound channel, Run still
\* having messages and ticks to serve
C24_Witness ==
    /\ h["a"].at = "pong"
    /\ ~HasRoom("a")
    /\ events["a"] # <<>>
    /\ nrecv + nticks < MaxServed

====
